---------------------------- MODULE Spec2Model ----------------------------
(***************************************************************************)
(* Model of the per-frame simulation of the platformer: the stage pipeline *)
(* of src/states/game_state.py and src/states/menu.py, the player          *)
(* controller of src/player.py, the NPC state machines of src/npc.py and   *)
(* the camera of engine/camera.py.                                         *)
(*                                                                         *)
(* Units.  The program computes positions and velocities in floating-point *)
(* pixels.  With gravity 3.5 and integer dt every value the program        *)
(* produces is a multiple of 0.5, so the model stores every length and     *)
(* velocity in HALF PIXELS (value * 2) and is exact: 3.5 px is 7, a 16 px   *)
(* tile is 32, the death line 150 px is 300.  Screen alpha is kept in its  *)
(* own unit (0..255).                                                      *)
(*                                                                         *)
(* One frame of a pipeline is one action.  The stages are operators on a   *)
(* bundle w = [self, disk, music, trace]: self is the state object, disk   *)
(* the two persisted json files, music pygame.mixer.music, and trace the   *)
(* list of stage steps run in the current update call, in order.           *)
(***************************************************************************)
EXTENDS Integers, Sequences, FiniteSets, TLC

VARIABLES
    game,    \* the GameState instance (player, npcs, camera, stage fields)
    menu,    \* the MenuState instance
    disk,    \* player_save.json and the flag record at DATA_PATH
    music,   \* pygame.mixer.music
    trace,   \* stage steps run by the last update call, in order
    active   \* which state object the application loop is updating

vars == <<game, menu, disk, music, trace, active>>

None == "None"

\* ------------------------------------------------------------------
\* Program constants (lengths in half pixels)
\* ------------------------------------------------------------------
speed == 8
gravity == 7
jump_height == 30
DeathY == 300
TILE == 32
NeighborRadius == 3
ScrollY0 == -96
ScrollYMax == 96
BeachX == 9280
SuburbX == 3984
DowntownX == 9056
DowntownY == 128
SeashellsNeeded == 5
MaxNoSeashellParticles == 3
\* src.common (WIDTH, HEIGHT, FADE_SPEED) and the sprite sizes are data of the
\* repository that the sources only import; the values are those of a
\* 320x180 window (in pixels), 16x16 sprites and a three-frame fade.
WIDTH == 320
HEIGHT == 180
FADE_SPEED == 100
AlphaMax == 255
PlayerW == 32
PlayerH == 32

\* ------------------------------------------------------------------
\* Bounds of the model
\* ------------------------------------------------------------------
MaxDt == 2
MaxEvents == 2
\* adjust_to calls are followed while scroll.y stays above -MaxScroll
MaxScroll == 2000

\* ------------------------------------------------------------------
\* Rectangles (pygame.Rect / FRect)
\* ------------------------------------------------------------------
Rect(x, y, w, h) == [x |-> x, y |-> y, w |-> w, h |-> h]

\* pygame's colliderect: overlap of positive area; touching edges do not collide
colliderect(a, b) ==
    /\ a.x < b.x + b.w
    /\ b.x < a.x + a.w
    /\ a.y < b.y + b.h
    /\ b.y < a.y + a.h

Min(a, b) == IF a < b THEN a ELSE b
Max(a, b) == IF a > b THEN a ELSE b

Contains(seq, x) == \E i \in 1..Len(seq) : seq[i] = x

Count(seq, x) == Cardinality({i \in 1..Len(seq) : seq[i] = x})

\* list.remove(x): removes the first occurrence
RemoveFirst(seq, x) ==
    LET i == CHOOSE k \in 1..Len(seq) :
                 seq[k] = x /\ \A j \in 1..(k - 1) : seq[j] # x
    IN  SubSeq(seq, 1, i - 1) \o SubSeq(seq, i + 1, Len(seq))

\* ------------------------------------------------------------------
\* Tilemap collaborator (engine.tilemap, engine.utils)
\* ------------------------------------------------------------------
TileRect(t) == Rect(t[1] * TILE, t[2] * TILE, TILE, TILE)

pixel_to_tile(rect) == <<rect.x \div TILE, rect.y \div TILE>>

TileKey(t) == t[1] * 1000 + t[2]

RECURSIVE SortTiles(_, _)
SortTiles(S, order) ==
    IF S = {} THEN <<>>
    ELSE LET t == IF order = "asc"
                  THEN CHOOSE a \in S : \A b \in S : TileKey(a) <= TileKey(b)
                  ELSE CHOOSE a \in S : \A b \in S : TileKey(a) >= TileKey(b)
         IN  <<TileRect(t)>> \o SortTiles(S \ {t}, order)

\* the solid tiles within `radius` tiles of the tile coordinate `pos`, as the
\* list the collision loops iterate; the iteration order is not fixed by the
\* interface (a set of rectangles), so it is an input of the frame
get_neighboring_tiles(tilemap, radius, pos, order) ==
    SortTiles({t \in tilemap : /\ t[1] >= pos[1] - radius
                               /\ t[1] <= pos[1] + radius
                               /\ t[2] >= pos[2] - radius
                               /\ t[2] <= pos[2] + radius}, order)

\* ------------------------------------------------------------------
\* Player (src/player.py)
\* ------------------------------------------------------------------
Player_load_save(save) ==
    [rect      |-> Rect(save.checkpoint_pos[1], save.checkpoint_pos[2],
                        PlayerW, PlayerH),
     vel       |-> [x |-> 0, y |-> 0],
     facing    |-> "right",
     state     |-> "idle",
     jumping   |-> FALSE,
     alive     |-> TRUE,
     new_quest |-> FALSE,
     settings  |-> save,
     \* instrumentation: jump impulses applied since 'jumping' was last cleared
     impulses  |-> 0]

\* the loop over the frame's events in Player.move
RECURSIVE JumpEvents(_, _)
JumpEventsNoGuard(p, events) ==
    IF events = <<>> THEN p
    ELSE JumpEvents(
            IF Head(events) = "K_SPACE"
            THEN [p EXCEPT !.jumping = TRUE, !.vel.y = -jump_height,
                           !.impulses = @ + 1]
            ELSE p,
            Tail(events))

JumpEvents(p, events) ==
    IF events = <<>> THEN p
    ELSE JumpEvents(
            IF Head(events) = "K_SPACE" /\ ~p.jumping
            THEN [p EXCEPT !.jumping = TRUE, !.vel.y = -jump_height,
                           !.impulses = @ + 1]
            ELSE p,
            Tail(events))

Player_moveKeepState(p, e) ==
    LET walk == ~(e.keys.a /\ e.keys.d) /\ (e.keys.d \/ e.keys.a)
        p1 == [p EXCEPT
                 !.state  = IF walk THEN "walk" ELSE @,
                 !.facing = IF ~walk THEN @
                            ELSE IF e.keys.d THEN "right" ELSE "left",
                 !.vel.x  = IF ~walk THEN 0
                            ELSE IF e.keys.d THEN speed ELSE -speed]
        p2 == [p1 EXCEPT !.vel.y = @ + gravity * e.dt]
        p3 == JumpEvents(p2, e.events)
    IN  IF p3.jumping THEN [p3 EXCEPT !.state = "jump"] ELSE p3

Player_move(p, e) ==
    LET walk == ~(e.keys.a /\ e.keys.d) /\ (e.keys.d \/ e.keys.a)
        p1 == [p EXCEPT
                 !.state  = IF walk THEN "walk" ELSE "idle",
                 !.facing = IF ~walk THEN @
                            ELSE IF e.keys.d THEN "right" ELSE "left",
                 !.vel.x  = IF ~walk THEN 0
                            ELSE IF e.keys.d THEN speed ELSE -speed]
        p2 == [p1 EXCEPT !.vel.y = @ + gravity * e.dt]
        p3 == JumpEvents(p2, e.events)
    IN  IF p3.jumping THEN [p3 EXCEPT !.state = "jump"] ELSE p3

Player_updateNoDeath(p, e) == Player_move(p, e)

Player_update(p, e) ==
    LET p1 == Player_move(p, e)
    IN  IF p1.rect.y > DeathY THEN [p1 EXCEPT !.alive = FALSE] ELSE p1

\* ------------------------------------------------------------------
\* Collision resolver (TileStage.collisions)
\* ------------------------------------------------------------------
RECURSIVE HorizontalPass(_, _)
HorizontalPass(ent, tiles) ==
    IF tiles = <<>> THEN ent
    ELSE LET tile == Head(tiles)
             e1 == IF colliderect(ent.rect, tile)
                   THEN IF ent.vel.x > 0
                        THEN [ent EXCEPT !.rect.x = tile.x - ent.rect.w]
                        ELSE IF ent.vel.x < 0
                        THEN [ent EXCEPT !.rect.x = tile.x + tile.w]
                        ELSE ent
                   ELSE ent
         IN  HorizontalPass(e1, Tail(tiles))

RECURSIVE VerticalPass(_, _)
VerticalPass(ent, tiles) ==
    IF tiles = <<>> THEN ent
    ELSE LET tile == Head(tiles)
             e1 == IF colliderect(ent.rect, tile)
                   THEN IF ent.vel.y > 0
                        THEN [ent EXCEPT !.rect.y = tile.y - ent.rect.h,
                                         !.jumping = FALSE,
                                         !.impulses = 0,
                                         !.vel.y = 0]
                        ELSE IF ent.vel.y < 0
                        THEN [ent EXCEPT !.rect.y = tile.y + tile.h,
                                         !.vel.y = 0]
                        ELSE ent
                   ELSE ent
         IN  VerticalPass(e1, Tail(tiles))

TileStage_collisionsNoAirborne(tilemap, entity, e) ==
    LET collidable_tiles ==
            get_neighboring_tiles(tilemap, NeighborRadius,
                                  pixel_to_tile(entity.rect), e.order)
        e1 == [entity EXCEPT !.rect.x = @ + entity.vel.x * e.dt]
        e2 == HorizontalPass(e1, collidable_tiles)
        e3 == [e2 EXCEPT !.rect.y = @ + e2.vel.y * e.dt]
    IN  VerticalPass(e3, collidable_tiles)

TileStage_collisions(tilemap, entity, e) ==
    LET collidable_tiles ==
            get_neighboring_tiles(tilemap, NeighborRadius,
                                  pixel_to_tile(entity.rect), e.order)
        e1 == [entity EXCEPT !.rect.x = @ + entity.vel.x * e.dt]
        e2 == HorizontalPass(e1, collidable_tiles)
        e3 == [e2 EXCEPT !.rect.y = @ + e2.vel.y * e.dt]
        e4 == VerticalPass(e3, collidable_tiles)
    IN  IF e4.vel.y > 0 THEN [e4 EXCEPT !.jumping = TRUE] ELSE e4


\* ------------------------------------------------------------------
\* NPCs (src/npc.py).  Rendered lines are modelled by their text; the
\* alpha of the text (engine.utils.Expansion) only affects drawing.
\* ------------------------------------------------------------------
DefaultLine == "Press E to talk"

TalkingNPC_render_text_defaultKeepIndex(npc, lines) ==
    [npc EXCEPT !.lines = <<DefaultLine>> \o lines]

TalkingNPC_render_text_default(npc, lines) ==
    [npc EXCEPT !.lines = <<DefaultLine>> \o lines,
                !.line_index = 0,
                !.text_surf = DefaultLine]

TalkingNPC_handle_states(npc, player) ==
    LET direction == IF player.rect.x > npc.pos.x THEN "right" ELSE "left"
        action == IF npc.interacting /\ npc.talking THEN "talk" ELSE "idle"
    IN  [npc EXCEPT !.state = <<direction, action>>]

\* the loop over the frame's events in TalkingNPC.update
RECURSIVE TalkEvents(_, _)
TalkEventsWrap(npc, events) ==
    IF events = <<>> THEN npc
    ELSE TalkEvents(
            IF Head(events) = "K_e"
            THEN LET i == (npc.line_index + 1) % Len(npc.lines)
                 IN  [npc EXCEPT !.talking = TRUE,
                                 !.line_index = i,
                                 !.text_surf = npc.lines[i + 1]]
            ELSE npc,
            Tail(events))

TalkEvents(npc, events) ==
    IF events = <<>> THEN npc
    ELSE TalkEvents(
            IF Head(events) = "K_e"
            THEN IF npc.line_index < Len(npc.lines) - 1
                 THEN [npc EXCEPT !.talking = TRUE,
                                  !.line_index = @ + 1,
                                  !.text_surf = npc.lines[npc.line_index + 2]]
                 ELSE [npc EXCEPT !.talking = TRUE]
            ELSE npc,
            Tail(events))

TalkingNPC_update(npc, player, e) ==
    LET n1 == [npc EXCEPT !.interacting = colliderect(npc.rect, player.rect)]
        n2 == IF n1.interacting
              THEN TalkEvents(n1, e.events)
              ELSE [n1 EXCEPT !.talking = FALSE]
    IN  TalkingNPC_handle_states(n2, player)

TalkingNPC_init(obj) ==
    TalkingNPC_render_text_default(
        [kind        |-> obj.type,
         name        |-> obj.name,
         rect        |-> obj.rect,
         pos         |-> [x |-> obj.rect.x, y |-> obj.rect.y],
         state       |-> <<"left", "idle">>,
         lines       |-> <<>>,
         line_index  |-> 0,
         text_surf   |-> DefaultLine,
         interacting |-> FALSE,
         talking     |-> FALSE],
        obj.text)

Extend(r, s) == [f \in (DOMAIN r) \cup (DOMAIN s) |->
                    IF f \in DOMAIN s THEN s[f] ELSE r[f]]

QuestGiverNPC_init(obj) ==
    Extend(TalkingNPC_init(obj),
           [item           |-> obj.item,
            text_if_item   |-> obj.text_if_item,
            quest_done     |-> FALSE,
            check_finished |-> FALSE,
            quest_ongoing  |-> FALSE,
            \* instrumentation: calls of render_text_default(text_if_item)
            swaps          |-> 0])

\* returns the NPC and the player it may have changed
QuestGiverNPC_updateRegrant(npc, player, e) ==
    LET n1 == TalkingNPC_update(npc, player, e)
        n2 == [n1 EXCEPT
                 !.quest_done    = Contains(player.settings.items_delivered, npc.item),
                 !.quest_ongoing = Contains(player.settings.inventory, npc.item)]
    IN  IF n2.quest_done /\ ~n2.check_finished
        THEN [npc    |-> TalkingNPC_render_text_default(
                             [n2 EXCEPT !.check_finished = TRUE,
                                        !.swaps = @ + 1], n2.text_if_item),
              player |-> player]
        ELSE IF n2.talking /\ ~n2.quest_done
        THEN [npc    |-> n2,
              player |-> [player EXCEPT
                            !.settings.inventory = Append(@, n2.item),
                            !.new_quest = TRUE]]
        ELSE [npc |-> n2, player |-> player]

QuestGiverNPC_update(npc, player, e) ==
    LET n1 == TalkingNPC_update(npc, player, e)
        n2 == [n1 EXCEPT
                 !.quest_done    = Contains(player.settings.items_delivered, npc.item),
                 !.quest_ongoing = Contains(player.settings.inventory, npc.item)]
    IN  IF n2.quest_done /\ ~n2.check_finished
        THEN [npc    |-> TalkingNPC_render_text_default(
                             [n2 EXCEPT !.check_finished = TRUE,
                                        !.swaps = @ + 1], n2.text_if_item),
              player |-> player]
        ELSE IF n2.talking /\ ~n2.quest_ongoing /\ ~n2.quest_done
        THEN [npc    |-> n2,
              player |-> [player EXCEPT
                            !.settings.inventory = Append(@, n2.item),
                            !.new_quest = TRUE]]
        ELSE [npc |-> n2, player |-> player]

QuestReceiverNPC_init(obj) ==
    Extend(TalkingNPC_init(obj),
           [items            |-> obj.items,
            text_if_item     |-> obj.text_if_item,
            quest_done       |-> FALSE,
            quest_ongoing    |-> FALSE,
            check_finished   |-> FALSE,
            check_finished_2 |-> FALSE,
            \* instrumentation: calls of render_text_default(text_if_item)
            \* under the first latch and under the second
            swaps            |-> 0,
            swaps_2          |-> 0])

AllIn(items, seq) == \A i \in 1..Len(items) : Contains(seq, items[i])

\* the delivery loop: inventory.remove(item); items_delivered.append(item)
RECURSIVE Deliver(_, _)
DeliverCopy(settings, items) ==
    [settings EXCEPT !.items_delivered = @ \o items]

Deliver(settings, items) ==
    IF items = <<>> THEN settings
    ELSE Deliver([settings EXCEPT
                    !.inventory = RemoveFirst(@, Head(items)),
                    !.items_delivered = Append(@, Head(items))],
                 Tail(items))

QuestReceiverNPC_updateRelatch(npc, player, e) ==
    LET n1 == TalkingNPC_update(npc, player, e)
        n2 == [n1 EXCEPT
                 !.quest_done    = AllIn(npc.items, player.settings.items_delivered),
                 !.quest_ongoing = AllIn(npc.items, player.settings.inventory)]
        n3 == IF n2.quest_done /\ ~n2.check_finished
              THEN TalkingNPC_render_text_default(
                       [n2 EXCEPT !.swaps = @ + 1], n2.text_if_item)
              ELSE n2
        n4 == [n3 EXCEPT !.check_finished = TRUE]
        n5 == IF n4.interacting /\ n4.quest_ongoing
              THEN TalkingNPC_render_text_default(
                       [n4 EXCEPT !.check_finished_2 = TRUE,
                                  !.swaps_2 = @ + 1], n4.text_if_item)
              ELSE n4
    IN  IF n5.check_finished_2 /\ n5.talking /\ n5.quest_ongoing
        THEN [npc    |-> n5,
              player |-> [player EXCEPT
                            !.settings = [Deliver(@, n5.items) EXCEPT
                                            !.seashells = @ + 1]]]
        ELSE [npc |-> n5, player |-> player]

QuestReceiverNPC_update(npc, player, e) ==
    LET n1 == TalkingNPC_update(npc, player, e)
        n2 == [n1 EXCEPT
                 !.quest_done    = AllIn(npc.items, player.settings.items_delivered),
                 !.quest_ongoing = AllIn(npc.items, player.settings.inventory)]
        n3 == IF n2.quest_done /\ ~n2.check_finished
              THEN TalkingNPC_render_text_default(
                       [n2 EXCEPT !.swaps = @ + 1], n2.text_if_item)
              ELSE n2
        n4 == [n3 EXCEPT !.check_finished = TRUE]
        n5 == IF n4.interacting /\ n4.quest_ongoing /\ ~n4.check_finished_2
              THEN TalkingNPC_render_text_default(
                       [n4 EXCEPT !.check_finished_2 = TRUE,
                                  !.swaps_2 = @ + 1], n4.text_if_item)
              ELSE n4
    IN  IF n5.check_finished_2 /\ n5.talking /\ n5.quest_ongoing
        THEN [npc    |-> n5,
              player |-> [player EXCEPT
                            !.settings = [Deliver(@, n5.items) EXCEPT
                                            !.seashells = @ + 1]]]
        ELSE [npc |-> n5, player |-> player]

ItemNPC_init(obj) ==
    [kind      |-> obj.type,
     name      |-> obj.name,
     rect      |-> obj.rect,
     item      |-> obj.item,
     picked_up |-> FALSE]

\* the loop over the frame's events in ItemNPC.update
RECURSIVE PickUpEvents(_, _, _)
PickUpEvents(npc, player, events) ==
    IF events = <<>> THEN [npc |-> npc, player |-> player]
    ELSE IF Head(events) = "K_e"
         THEN PickUpEvents([npc EXCEPT !.picked_up = TRUE],
                           [player EXCEPT
                              !.settings.inventory = Append(@, npc.item)],
                           Tail(events))
         ELSE PickUpEvents(npc, player, Tail(events))

ItemNPC_update(npc, player, e) ==
    LET n1 == IF \/ Contains(player.settings.inventory, npc.item)
                 \/ Contains(player.settings.items_delivered, npc.item)
              THEN [npc EXCEPT !.picked_up = TRUE]
              ELSE npc
        interacting == colliderect(player.rect, n1.rect)
    IN  IF interacting /\ ~n1.picked_up
        THEN PickUpEvents(n1, player, e.events)
        ELSE [npc |-> n1, player |-> player]

NPC_init(obj) ==
    CASE obj.type = "talking_npc"        -> TalkingNPC_init(obj)
      [] obj.type = "quest_giver_npc"    -> QuestGiverNPC_init(obj)
      [] obj.type = "quest_receiver_npc" -> QuestReceiverNPC_init(obj)
      [] obj.type = "item_npc"           -> ItemNPC_init(obj)

NPC_update(npc, player, e) ==
    CASE npc.kind = "talking_npc" ->
             [npc |-> TalkingNPC_update(npc, player, e), player |-> player]
      [] npc.kind = "quest_giver_npc"    -> QuestGiverNPC_update(npc, player, e)
      [] npc.kind = "quest_receiver_npc" -> QuestReceiverNPC_update(npc, player, e)
      [] npc.kind = "item_npc"           -> ItemNPC_update(npc, player, e)

\* for npc in self.npcs: npc.update(event_info, self.player)
RECURSIVE UpdateNPCs(_, _, _, _)
UpdateNPCs(npcs, i, player, e) ==
    IF i > Len(npcs) THEN [npcs |-> npcs, player |-> player]
    ELSE LET r == NPC_update(npcs[i], player, e)
         IN  UpdateNPCs([npcs EXCEPT ![i] = r.npc], i + 1, r.player, e)


\* ------------------------------------------------------------------
\* Camera (engine/camera.py); scroll in half pixels
\* ------------------------------------------------------------------
Camera_init == [x |-> 0, y |-> ScrollY0]

Camera_adjust_toNoClamp(scroll, dt, target_pos) ==
    LET x1 == scroll.x + 2 * ((target_pos.x - scroll.x - 2 * (WIDTH \div 2)) \div 2)
        y1 == scroll.y
              + 2 * dt * ((target_pos.y - scroll.y - 2 * ((2 * HEIGHT) \div 3)) \div 2)
    IN  [x |-> x1, y |-> y1]

Camera_adjust_toScaledX(scroll, dt, target_pos) ==
    LET x1 == scroll.x
              + 2 * dt * ((target_pos.x - scroll.x - 2 * (WIDTH \div 2)) \div 2)
        y1 == scroll.y
              + 2 * dt * ((target_pos.y - scroll.y - 2 * ((2 * HEIGHT) \div 3)) \div 2)
    IN  [x |-> x1, y |-> Min(y1, ScrollYMax)]

Camera_adjust_to(scroll, dt, target_pos) ==
    LET x1 == scroll.x + 2 * ((target_pos.x - scroll.x - 2 * (WIDTH \div 2)) \div 2)
        y1 == scroll.y
              + 2 * dt * ((target_pos.y - scroll.y - 2 * ((2 * HEIGHT) \div 3)) \div 2)
    IN  [x |-> x1, y |-> Min(y1, ScrollYMax)]

\* ------------------------------------------------------------------
\* Fade transition (engine.animations.FadeTransition): a fade-in runs alpha
\* down to 0, a fade-out runs it up to 255 and reports completion in `event`
\* ------------------------------------------------------------------
FadeTransition_init(fade_in, fade_speed) ==
    [fade_in    |-> fade_in,
     fade_speed |-> fade_speed,
     alpha      |-> IF fade_in THEN AlphaMax ELSE 0,
     event      |-> FALSE]

FadeTransition_update(t, dt) ==
    IF t.fade_in
    THEN [t EXCEPT !.alpha = Max(@ - t.fade_speed * dt, 0), !.event = FALSE]
    ELSE LET a == t.alpha + t.fade_speed * dt
         IN  [t EXCEPT !.alpha = Min(a, AlphaMax), !.event = (a >= AlphaMax)]

\* ------------------------------------------------------------------
\* The game pipeline (src/states/game_state.py)
\* ------------------------------------------------------------------
Step(w, stage) == [w EXCEPT !.trace = Append(@, stage)]

GameInit_save(w) ==
    Step([w EXCEPT !.disk.player_save = w.self.player.settings,
                   !.disk.save_writes = @ + 1],
         "save")

GameInit_update(w, e) == w

\* Every stage's update is written as its own logic applied to the result of
\* the super().update call it makes first.
BackgroundStage_own(w1, e) ==
    LET r == w1.self.player.rect
    IN  IF r.x <= SuburbX
        THEN [w1 EXCEPT !.self.background = "suburb"]
        ELSE IF r.x <= DowntownX /\ r.y > DowntownY
        THEN [w1 EXCEPT !.self.background = "downtown"]
        ELSE IF r.x >= DowntownX
        THEN [w1 EXCEPT !.self.background = "beach"]
        ELSE w1

BackgroundStage_update(w, e) ==
    BackgroundStage_own(Step(GameInit_update(w, e), "BackgroundStage"), e)

TileStage_update(w, e) == Step(BackgroundStage_update(w, e), "TileStage")

NPCStage_own(w1, e) ==
    LET r == UpdateNPCs(w1.self.npcs, 1, w1.self.player, e)
    IN  [w1 EXCEPT !.self.npcs = r.npcs, !.self.player = r.player]

NPCStage_update(w, e) ==
    NPCStage_own(Step(TileStage_update(w, e), "NPCStage"), e)

\* self.player.new_quest = False, before super().update
PlayerStage_before(w) ==
    Step([w EXCEPT !.self.player.new_quest = FALSE], "PlayerStage")

PlayerStage_ownMoveFirst(w1, e) ==
    LET p == TileStage_collisions(w1.self.tilemap,
                                  Player_update(w1.self.player, e), e)
    IN  [w1 EXCEPT !.self.player = p,
                   !.self._next_state = IF ~p.alive THEN "GAME" ELSE @]

PlayerStage_own(w1, e) ==
    LET p == Player_update(
                 TileStage_collisions(w1.self.tilemap, w1.self.player, e), e)
    IN  [w1 EXCEPT !.self.player = p,
                   !.self._next_state = IF ~p.alive THEN "GAME" ELSE @]

PlayerStage_update(w, e) ==
    PlayerStage_own(
        Step(NPCStage_update(PlayerStage_before(w), e), "PlayerStage"), e)

\* for checkpoint in self.checkpoints: the last zone overlapped wins
RECURSIVE CheckpointLoop(_, _)
CheckpointLoop(player, checkpoints) ==
    IF checkpoints = <<>> THEN player
    ELSE CheckpointLoop(
             IF colliderect(Head(checkpoints), player.rect)
             THEN [player EXCEPT !.settings.checkpoint_pos =
                                     <<Head(checkpoints).x, player.rect.y>>]
             ELSE player,
             Tail(checkpoints))

CheckpointStage_own(w1, e) ==
    [w1 EXCEPT !.self.player = CheckpointLoop(@, w1.self.checkpoints)]

CheckpointStage_update(w, e) ==
    CheckpointStage_own(Step(PlayerStage_update(w, e), "CheckpointStage"), e)

CameraStage_own(w1, e) ==
    [w1 EXCEPT !.self.camera.scroll =
                   Camera_adjust_to(@, e.dt, w1.self.player.rect)]

CameraStage_updateOwnFirst(w, e) ==
    CheckpointStage_update(CameraStage_own(Step(w, "CameraStage"), e), e)

CameraStage_update(w, e) ==
    CameraStage_own(Step(CheckpointStage_update(w, e), "CameraStage"), e)

UIStage_own(w1, e) ==
    LET amount  == w1.self.player.settings.seashells
        changed == amount # w1.self.last_amount
    IN  [w1 EXCEPT
           !.self.last_amount = amount,
           !.self.text_particles =
               (IF changed THEN Append(@, "Quest finished!") ELSE @)
               \o (IF w1.self.player.new_quest THEN <<"New quest!">> ELSE <<>>)]

UIStage_update(w, e) ==
    UIStage_own(Step(CameraStage_update(w, e), "UIStage"), e)

BeachStage_ownNoLatch(w1, e) ==
    IF /\ w1.self.player.rect.x > BeachX
       /\ w1.self.player.settings.seashells < SeashellsNeeded
       /\ w1.self.player.vel.x > 0
    THEN [w1 EXCEPT
            !.self.player.vel.x = 0,
            !.self.text_particles =
                IF Len(@) < MaxNoSeashellParticles
                THEN Append(@, "Not enough seashells!") ELSE @]
    ELSE IF /\ w1.self.player.rect.x \in {BeachX, BeachX + 1}
            /\ w1.self.player.settings.seashells >= SeashellsNeeded
    THEN Step([w1 EXCEPT
                 !.self.player_congratulated = TRUE,
                 !.self.text_particles = Append(@, "You made it!"),
                 !.self._next_state = "CREDITS",
                 !.self.transition.fade_speed = @ \div 10,
                 !.disk.data = [run_intro |-> FALSE, game_complete |-> TRUE],
                 !.disk.data_writes = @ + 1,
                 !.music.state = "fadeout"],
              "game_complete")
    ELSE w1

BeachStage_ownNoGate(w1, e) ==
    IF /\ w1.self.player.rect.x \in {BeachX, BeachX + 1}
       /\ w1.self.player.settings.seashells >= SeashellsNeeded
       /\ ~w1.self.player_congratulated
    THEN Step([w1 EXCEPT
                 !.self.player_congratulated = TRUE,
                 !.self.text_particles = Append(@, "You made it!"),
                 !.self._next_state = "CREDITS",
                 !.self.transition.fade_speed = @ \div 10,
                 !.disk.data = [run_intro |-> FALSE, game_complete |-> TRUE],
                 !.disk.data_writes = @ + 1,
                 !.music.state = "fadeout"],
              "game_complete")
    ELSE w1

BeachStage_own(w1, e) ==
    IF /\ w1.self.player.rect.x > BeachX
       /\ w1.self.player.settings.seashells < SeashellsNeeded
       /\ w1.self.player.vel.x > 0
    THEN [w1 EXCEPT
            !.self.player.vel.x = 0,
            !.self.text_particles =
                IF Len(@) < MaxNoSeashellParticles
                THEN Append(@, "Not enough seashells!") ELSE @]
    \* int(rect.x) == 290 * 16, rect.x being a multiple of half a pixel
    ELSE IF /\ w1.self.player.rect.x \in {BeachX, BeachX + 1}
            /\ w1.self.player.settings.seashells >= SeashellsNeeded
            /\ ~w1.self.player_congratulated
    THEN Step([w1 EXCEPT
                 !.self.player_congratulated = TRUE,
                 !.self.text_particles = Append(@, "You made it!"),
                 !.self._next_state = "CREDITS",
                 !.self.transition.fade_speed = @ \div 10,
                 !.disk.data = [run_intro |-> FALSE, game_complete |-> TRUE],
                 !.disk.data_writes = @ + 1,
                 !.music.state = "fadeout"],
              "game_complete")
    ELSE w1

BeachStage_update(w, e) ==
    BeachStage_own(Step(UIStage_update(w, e), "BeachStage"), e)

\* the loop over the frame's events in PauseStage.update
RECURSIVE PauseEvents(_, _)
PauseEvents(pause_active, events) ==
    IF events = <<>> THEN pause_active
    ELSE PauseEvents(IF Head(events) = "K_ESCAPE"
                     THEN ~pause_active ELSE pause_active,
                     Tail(events))

\* for button in self.buttons: at most one button is under the pointer
PauseStage_buttons(w2, e) ==
    IF w2.self.pause_active
    THEN CASE e.click = "save & exit" -> [w2 EXCEPT !.self.exit = TRUE]
           [] e.click = "continue"    -> [w2 EXCEPT !.self.pause_active = FALSE]
           [] e.click = "main menu"   -> [w2 EXCEPT !.self._next_state = "MENU"]
           [] OTHER                   -> w2
    ELSE w2

PauseStage_own(w1, e) ==
    PauseStage_buttons(
        [w1 EXCEPT !.self.pause_active = PauseEvents(@, e.events)], e)

PauseStage_updateAlways(w, e) ==
    PauseStage_own(Step(BeachStage_update(w, e), "PauseStage"), e)

PauseStage_update(w, e) ==
    PauseStage_own(
        Step(IF ~w.self.pause_active THEN BeachStage_update(w, e) ELSE w,
             "PauseStage"), e)

OSTStage_start_ost(w, ost) ==
    Step([w EXCEPT !.music = [track |-> ost, state |-> "playing"]], "start_ost")

OSTStage_ownRestart(w1, e) ==
    IF w1.self.pause_active
    THEN OSTStage_start_ost([w1 EXCEPT !.self.ost = "ost_quiet"], "ost_quiet")
    ELSE OSTStage_start_ost([w1 EXCEPT !.self.ost = "ost"], "ost")

OSTStage_own(w1, e) ==
    IF w1.self.pause_active /\ w1.self.ost = "ost"
    THEN OSTStage_start_ost([w1 EXCEPT !.self.ost = "ost_quiet"], "ost_quiet")
    ELSE IF ~w1.self.pause_active /\ w1.self.ost = "ost_quiet"
    THEN OSTStage_start_ost([w1 EXCEPT !.self.ost = "ost"], "ost")
    ELSE w1

OSTStage_update(w, e) ==
    OSTStage_own(Step(PauseStage_update(w, e), "OSTStage"), e)

TransitionStage_leaveUnsaved(w3) ==
    Step([Step(w3, "music.stop") EXCEPT
            !.music = [track |-> None, state |-> "stopped"],
            !.self.next_state = w3.self._next_state],
         "next_state")

\* the body of `if self.transition.event:`
TransitionStage_leave(w3) ==
    Step([Step(GameInit_save(w3), "music.stop") EXCEPT
            !.music = [track |-> None, state |-> "stopped"],
            !.self.next_state = w3.self._next_state],
         "next_state")

TransitionStage_fadeNoEvent(w2) ==
    IF w2.self._next_state # None
    THEN TransitionStage_leave([w2 EXCEPT !.self.transition.fade_in = FALSE])
    ELSE w2

TransitionStage_fade(w2) ==
    IF w2.self._next_state # None
    THEN IF w2.self.transition.event
         THEN TransitionStage_leave([w2 EXCEPT !.self.transition.fade_in = FALSE])
         ELSE [w2 EXCEPT !.self.transition.fade_in = FALSE]
    ELSE w2

TransitionStage_own(w1, e) ==
    TransitionStage_fade(
        [w1 EXCEPT !.self.transition = FadeTransition_update(@, e.dt)])

TransitionStage_updatePausedSkips(w, e) ==
    IF OSTStage_update(w, e).self.pause_active
    THEN Step(OSTStage_update(w, e), "TransitionStage")
    ELSE TransitionStage_own(Step(OSTStage_update(w, e), "TransitionStage"), e)

TransitionStage_update(w, e) ==
    TransitionStage_own(Step(OSTStage_update(w, e), "TransitionStage"), e)

GameState_update(w, e) == TransitionStage_update(w, e)

\* GameState.__init__ on a level (tilemap, object layers) and a player save;
\* npc_objects is the npcs layer in the iteration order of the set self.npcs
GameState_init(level, npc_objects) ==
    [player               |-> Player_load_save(level.save),
     tilemap              |-> level.tiles,
     camera               |-> [scroll |-> Camera_init],
     next_state           |-> None,
     _next_state          |-> None,
     exit                 |-> FALSE,
     background           |-> "suburb",
     npcs                 |-> [i \in 1..Len(npc_objects) |-> NPC_init(npc_objects[i])],
     checkpoints          |-> level.checkpoints,
     text_particles       |-> <<>>,
     last_amount          |-> level.save.seashells,
     player_congratulated |-> FALSE,
     pause_active         |-> FALSE,
     ost                  |-> "ost",
     transition           |-> FadeTransition_init(TRUE, FADE_SPEED)]

\* ------------------------------------------------------------------
\* The menu pipeline (src/states/menu.py); scroll in pixels
\* ------------------------------------------------------------------
MenuInit_update(m, e) == m

Menu_BackgroundStage_own(m1, e) ==
    [m1 EXCEPT !.scroll.x = @ + ((e.mouse_x \div 10) - @ - WIDTH \div 2) * e.dt]

Menu_BackgroundStage_update(m, e) ==
    Menu_BackgroundStage_own(MenuInit_update(m, e), e)

\* for button in self.buttons: at most one button is under the pointer
ButtonStage_own(m1, e) ==
    CASE e.click = "exit" -> [m1 EXCEPT !.settings_active = FALSE, !.exit = TRUE]
      [] e.click = "play" -> [m1 EXCEPT !.settings_active = FALSE,
                                        !._next_state = "GAME"]
      [] OTHER            -> [m1 EXCEPT !.settings_active = FALSE]

ButtonStage_update(m, e) ==
    ButtonStage_own(Menu_BackgroundStage_update(m, e), e)

Menu_TransitionStage_fade(m2) ==
    IF m2._next_state # None
    THEN IF m2.transition.event
         THEN [m2 EXCEPT !.transition.fade_in = FALSE,
                         !.next_state = m2._next_state,
                         !.grey_stopped = TRUE]
         ELSE [m2 EXCEPT !.transition.fade_in = FALSE]
    ELSE m2

Menu_TransitionStage_own(m1, e) ==
    Menu_TransitionStage_fade(
        [m1 EXCEPT !.transition = FadeTransition_update(@, e.dt)])

Menu_TransitionStage_update(m, e) ==
    Menu_TransitionStage_own(ButtonStage_update(m, e), e)

MenuState_update(m, e) == Menu_TransitionStage_update(m, e)

MenuState_init ==
    [next_state      |-> None,
     _next_state     |-> None,
     exit            |-> FALSE,
     scroll          |-> [x |-> 0, y |-> 0],
     settings_active |-> FALSE,
     grey_stopped    |-> FALSE,
     transition      |-> FadeTransition_init(TRUE, FADE_SPEED)]


\* ------------------------------------------------------------------
\* Levels: the data the pipeline loads at construction (assets/map/map.tmx,
\* assets/data/player_save.json), in half pixels
\* ------------------------------------------------------------------
EmptySave(pos) ==
    [checkpoint_pos  |-> pos,
     inventory       |-> <<>>,
     items_delivered |-> <<>>,
     seashells       |-> 0]

\* a four-tile floor over a pit, with one checkpoint zone on the floor
LevelPit ==
    [tiles       |-> {<<tx, 8>> : tx \in 0..3},
     checkpoints |-> <<Rect(64, 192, 32, 64)>>,
     objects     |-> <<>>,
     save        |-> EmptySave(<<16, 224>>)]

\* a floor two tiles thick, high enough over the death line to jump on, under
\* a ceiling tile that a jump reaches
LevelTower ==
    [tiles       |-> {<<0, ty>> : ty \in {3, 7, 8}},
     checkpoints |-> <<>>,
     objects     |-> <<>>,
     save        |-> EmptySave(<<0, 192>>)]

\* a giver of "key", a pickup "ball" and a receiver that wants the ball
QuestObjects ==
    <<[type |-> "quest_giver_npc", name |-> "G", rect |-> Rect(16, 224, 32, 32),
       text |-> <<"g1">>, item |-> "key", text_if_item |-> <<"g2">>],
      [type |-> "item_npc", name |-> "I", rect |-> Rect(48, 224, 32, 32),
       item |-> "ball"],
      [type |-> "quest_receiver_npc", name |-> "R", rect |-> Rect(64, 224, 32, 32),
       text |-> <<"r1">>, items |-> <<"ball">>, text_if_item |-> <<"r2">>]>>

QuestSaves ==
    {EmptySave(<<-16, 224>>),
     [EmptySave(<<-16, 224>>) EXCEPT !.items_delivered = <<"key">>,
                                     !.inventory = <<"ball">>,
                                     !.seashells = 1]}

\* the save a pipeline instance writes when it leaves after a frame with two
\* pickup key-downs and one delivery: one copy of the ball in each list
DuplicateSave ==
    [EmptySave(<<-16, 224>>) EXCEPT !.items_delivered = <<"ball">>,
                                    !.inventory = <<"ball">>,
                                    !.seashells = 1]

LevelQuest(save) ==
    [tiles       |-> {<<tx, 8>> : tx \in -1..2},
     checkpoints |-> <<>>,
     objects     |-> QuestObjects,
     save        |-> save]

\* one dialogue NPC with two lines of its own
LevelTalk ==
    [tiles       |-> {<<tx, 8>> : tx \in -1..0},
     checkpoints |-> <<>>,
     objects     |-> <<[type |-> "talking_npc", name |-> "T",
                        rect |-> Rect(0, 224, 32, 32), text |-> <<"t1", "t2">>]>>,
     save        |-> EmptySave(<<-16, 224>>)]

\* the end of the map: floor around x = 290 * 16, the player one or two
\* walking steps before it, with or without the seashells needed
BeachSaves ==
    {[EmptySave(<<x, 224>>) EXCEPT !.seashells = n] :
        x \in {BeachX - 16, BeachX - 12}, n \in {SeashellsNeeded - 1, SeashellsNeeded}}

LevelBeach(save) ==
    [tiles       |-> {<<tx, 8>> : tx \in 288..291},
     checkpoints |-> <<>>,
     objects     |-> <<>>,
     save        |-> save]

Reverse(seq) == [i \in 1..Len(seq) |-> seq[Len(seq) + 1 - i]]

\* ------------------------------------------------------------------
\* Inputs of a frame (event_info)
\* ------------------------------------------------------------------
NoKeys == [a |-> FALSE, d |-> FALSE]
RightKeys == {NoKeys, [a |-> FALSE, d |-> TRUE]}
WalkKeys == {NoKeys, [a |-> FALSE, d |-> TRUE], [a |-> TRUE, d |-> FALSE]}
AllKeys == [a : BOOLEAN, d : BOOLEAN]

\* the sequences of at most n KEYDOWN events of key k
Presses(k, n) == {[i \in 1..m |-> k] : m \in 0..n}

EventInfo(dt, keys, events, click, order) ==
    [dt |-> dt, keys |-> keys, events |-> events, click |-> click,
     order |-> order, mouse_x |-> 0]

MenuEventInfo(dt, mouse_x, click) ==
    [dt |-> dt, keys |-> NoKeys, events |-> <<>>, click |-> click,
     order |-> "asc", mouse_x |-> mouse_x]

\* ------------------------------------------------------------------
\* Actions: one update call of the active state object.  The application
\* loop stops updating an instance once it reads next_state or exit.
\* ------------------------------------------------------------------
InitWith(levels, states) ==
    /\ active \in states
    /\ \E level \in levels :
         \E npc_objects \in {level.objects, Reverse(level.objects)} :
            game = GameState_init(level, npc_objects)
    /\ menu = MenuState_init
    /\ disk = [player_save |-> game.player.settings,
               save_writes |-> 0,
               data        |-> [run_intro |-> FALSE, game_complete |-> FALSE],
               data_writes |-> 0]
    /\ music = [track |-> "ost", state |-> "playing"]
    /\ trace = <<>>

\* the bundle the stages of one update call work on
Bundle == [self |-> game, disk |-> disk, music |-> music, trace |-> <<>>]

GameFrame(e) ==
    /\ active = "game"
    /\ game.next_state = None
    /\ ~game.exit
    /\ \E w \in {GameState_update(Bundle, e)} :
           /\ game' = w.self
           /\ disk' = w.disk
           /\ music' = w.music
           /\ trace' = w.trace
    /\ UNCHANGED <<menu, active>>

MenuFrame(e) ==
    /\ active = "menu"
    /\ menu.next_state = None
    /\ ~menu.exit
    /\ menu' = MenuState_update(menu, e)
    /\ trace' = <<>>
    /\ UNCHANGED <<game, disk, music, active>>

\* --- Spec: the transition protocol, pause and death on LevelPit, and the menu
PauseEventLists == {<<>>, <<"K_ESCAPE">>}
GameClicks == {"none", "save & exit", "main menu", "continue"}
MenuClicks == {"none", "exit", "play"}
MenuMouse == {0, 1600}

Init == InitWith({LevelPit}, {"game", "menu"})

\* a frame carries either movement keys or pause-menu input
PlayInputs ==
    {EventInfo(1, keys, <<>>, "none", "asc") : keys \in WalkKeys}
    \cup {EventInfo(1, NoKeys, events, click, "asc") :
             events \in PauseEventLists, click \in GameClicks}

PlayFrame == \E e \in PlayInputs : GameFrame(e)

MenuPlayFrame ==
    \E mouse_x \in MenuMouse, click \in MenuClicks :
        MenuFrame(MenuEventInfo(1, mouse_x, click))

Next == PlayFrame \/ MenuPlayFrame

Spec == Init /\ [][Next]_vars

\* --- SpecLive: Spec with the application loop calling update again and
\* again on the active instance until it reads next_state or exit

\* the loop has not read next_state or exit on the active instance
Running ==
    \/ active = "game" /\ game.next_state = None /\ ~game.exit
    \/ active = "menu" /\ menu.next_state = None /\ ~menu.exit

\* Running is ENABLED <<Next>>_vars: while the loop runs, some input makes
\* the update call change the state
RunningIsEnabled ==
    /\ (active = "game" /\ Running) =>
          \E e \in PlayInputs : \E w \in {GameState_update(Bundle, e)} :
              w.self # game
    /\ (active = "menu" /\ Running) =>
          \E mouse_x \in MenuMouse, click \in MenuClicks :
              MenuState_update(menu, MenuEventInfo(1, mouse_x, click)) # menu

\* weak fairness of Next, WF_vars(Next), with ENABLED <<Next>>_vars written
\* as the state predicate Running
FairNext == []<>(~Running) \/ []<><<Next>>_vars

SpecLive == Init /\ [][Next]_vars /\ FairNext


\* --- SpecQuest: dialogue, quest and pickup NPCs on LevelQuest, with pause
QuestInputs ==
    {EventInfo(1, keys, events, "none", "asc") :
        keys \in RightKeys, events \in Presses("K_e", MaxEvents)}
    \cup {EventInfo(1, NoKeys, events, "none", "asc") :
            events \in {<<"K_ESCAPE">>, <<"K_e", "K_ESCAPE">>}}

InitQuest ==
    InitWith({LevelQuest(save) : save \in QuestSaves} \cup {LevelTalk}, {"game"})

QuestFrame == \E e \in QuestInputs : GameFrame(e)

SpecQuest == InitQuest /\ [][QuestFrame]_vars

\* --- SpecJump: jumping, falling and landing on LevelTower with any frame
\* time and either order of the neighbouring tiles
JumpInputs ==
    {EventInfo(1, [a |-> FALSE, d |-> TRUE], <<>>, "none", "asc")}
    \cup {EventInfo(dt, NoKeys, events, "none", order) :
            dt \in 1..MaxDt, events \in Presses("K_SPACE", MaxEvents),
            order \in {"asc", "desc"}}

InitJump == InitWith({LevelTower}, {"game"})

JumpFrame == \E e \in JumpInputs : GameFrame(e)

SpecJump == InitJump /\ [][JumpFrame]_vars

\* --- SpecCamera: any sequence of Camera.adjust_to calls on the game's camera
CameraDts == 1..MaxDt
CameraTargets ==
    {[x |-> tx, y |-> ty] : tx \in {0, 333, 640}, ty \in {-40, 0, 61, 200, 337, 600}}

CameraCall(dt, target_pos) ==
    /\ Camera_adjust_to(game.camera.scroll, dt, target_pos).y >= -MaxScroll
    /\ game' = [game EXCEPT !.camera.scroll = Camera_adjust_to(@, dt, target_pos)]
    /\ UNCHANGED <<menu, disk, music, trace, active>>

CameraNext == \E dt \in CameraDts, target_pos \in CameraTargets :
                  CameraCall(dt, target_pos)

SpecCamera == InitWith({LevelPit}, {"game"}) /\ [][CameraNext]_vars

\* --- SpecBeach: walking to the end of the map on LevelBeach, with pause
BeachInputs ==
    {EventInfo(1, keys, <<>>, "none", "asc") : keys \in WalkKeys}
    \cup {EventInfo(1, NoKeys, <<"K_ESCAPE">>, "none", "asc"),
          EventInfo(1, NoKeys, <<>>, "main menu", "asc")}

InitBeach == InitWith({LevelBeach(save) : save \in BeachSaves}, {"game"})

BeachFrame == \E e \in BeachInputs : GameFrame(e)

SpecBeach == InitBeach /\ [][BeachFrame]_vars

\* --- SpecReload: SpecQuest for pipeline instances that load any save an
\* earlier instance can have written
InitReload ==
    InitWith({LevelQuest(save) : save \in QuestSaves \cup {DuplicateSave}}, {"game"})

SpecReload == InitReload /\ [][QuestFrame]_vars

\* ------------------------------------------------------------------
\* Properties
\* ------------------------------------------------------------------
IsStage(x) ==
    x \in {"BackgroundStage", "TileStage", "NPCStage", "PlayerStage",
           "CheckpointStage", "CameraStage", "UIStage", "BeachStage",
           "PauseStage", "OSTStage", "TransitionStage"}

\* the stage steps of a trace, without the steps inside a stage
StageTrace(t) == SelectSeq(t, IsStage)

StageOrder ==
    <<"BackgroundStage", "TileStage", "NPCStage", "PlayerStage",
      "CheckpointStage", "CameraStage", "UIStage", "BeachStage",
      "PauseStage", "OSTStage", "TransitionStage">>

\* this step is an update call of the game pipeline that started unpaused
UnpausedFrame == active = "game" /\ ~game.pause_active /\ vars' # vars

\* C1: in both pipelines next_state stays null until a frame in which the
\* marker _next_state is non-null and the fade reports completion; on that
\* frame it takes the marker's value.  Setting the marker alone never
\* publishes.
TransitionSafety ==
    [][/\ game'.next_state # game.next_state =>
            /\ game.next_state = None
            /\ game'._next_state # None
            /\ game'.transition.event
            /\ game'.next_state = game'._next_state
       /\ menu'.next_state # menu.next_state =>
            /\ menu.next_state = None
            /\ menu'._next_state # None
            /\ menu'.transition.event
            /\ menu'.next_state = menu'._next_state
       /\ (game'._next_state # None /\ ~game'.transition.event)
            => game'.next_state = None
       /\ (menu'._next_state # None /\ ~menu'.transition.event)
            => menu'.next_state = None]_vars

\* a requested state was published after the fade-out ran to the end
TransitionPublished ==
    /\ game.next_state = "MENU"
    /\ game.transition.alpha = AlphaMax
    /\ game.player.alive

PipelineOrderAsClaimed ==
    [][UnpausedFrame => StageTrace(trace') = StageOrder]_vars

\* C10 amended: the order holds except that PlayerStage first clears
\* player.new_quest, before its super().update runs any earlier stage.
PipelineOrder ==
    [][UnpausedFrame => StageTrace(trace') = <<"PlayerStage">> \o StageOrder]_vars

\* an unpaused frame ran the whole pipeline
FullFrameRan ==
    /\ Len(trace) > 0
    /\ trace[Len(trace)] = "TransitionStage"
    /\ Len(StageTrace(trace)) = Len(StageOrder) + 1

\* --- quests and dialogue (SpecQuest)
Inventory == game.player.settings.inventory
Delivered == game.player.settings.items_delivered
NpcsOfKind(k) == {i \in 1..Len(game.npcs) : game.npcs[i].kind = k}
Speakers == {i \in 1..Len(game.npcs) : game.npcs[i].kind # "item_npc"}
Held(item) == Contains(Inventory, item) \/ Contains(Delivered, item)

\* C3 as stated: once every item a quest receiver requires is in
\* items_delivered, the seashell counter never changes again on its account
\* (it went up by exactly one on the delivering frame) and every later
\* update of the receiver leaves its quest_ongoing false.
ExactlyOnceDelivery ==
    [][\A i \in NpcsOfKind("quest_receiver_npc") :
        /\ AllIn(game.npcs[i].items, Delivered) =>
            /\ game'.player.settings.seashells = game.player.settings.seashells
            /\ UnpausedFrame => ~game'.npcs[i].quest_ongoing
        /\ (~AllIn(game.npcs[i].items, Delivered)
             /\ AllIn(game.npcs[i].items, game'.player.settings.items_delivered)) =>
            game'.player.settings.seashells = game.player.settings.seashells + 1]_vars

\* C4 as stated: the grant puts one copy of the giver's item into the
\* inventory and raises new_quest; the flag is down again one frame later and
\* no later key-down adds a copy or raises it again.
GrantOnFirstPress ==
    \A i \in NpcsOfKind("quest_giver_npc") : \A e \in QuestInputs :
        (/\ ~game.pause_active
         /\ ~Held(game.npcs[i].item)
         /\ colliderect(game.npcs[i].rect, game.player.rect)
         /\ Contains(e.events, "K_e")) =>
            \A w \in {GameState_update(Bundle, e)} :
                /\ Count(w.self.player.settings.inventory, game.npcs[i].item) = 1
                /\ w.self.player.new_quest

NoRegrant ==
    \A i \in NpcsOfKind("quest_giver_npc") :
        /\ Held(game.npcs[i].item) =>
            /\ Count(game'.player.settings.inventory, game.npcs[i].item)
                   = Count(Inventory, game.npcs[i].item)
            /\ UnpausedFrame => ~game'.player.new_quest
        /\ (UnpausedFrame /\ game'.player.new_quest) =>
            /\ ~Held(game.npcs[i].item)
            /\ game'.npcs[i].talking
            /\ Count(game'.player.settings.inventory, game.npcs[i].item) = 1

GrantScenarioAsClaimed ==
    /\ [](GrantOnFirstPress)
    /\ [][/\ NoRegrant
          /\ game.player.new_quest => ~game'.player.new_quest]_vars

\* C4 amended: as stated, except that the flag is cleared by the next frame
\* that starts unpaused; it stays up over the frames of a pause that began on
\* the granting frame, during which nothing reads it.
GrantScenario ==
    /\ [](GrantOnFirstPress)
    /\ [][/\ NoRegrant
          /\ (game.player.new_quest /\ UnpausedFrame)
                => ~game'.player.new_quest]_vars

\* the giver granted its item, and a later unpaused frame cleared the flag
\* while the player kept talking to the giver
GrantedOnce ==
    \E i \in NpcsOfKind("quest_giver_npc") :
        /\ game.npcs[i].talking
        /\ game.npcs[i].quest_ongoing
        /\ Count(Inventory, game.npcs[i].item) = 1
        /\ ~Contains(disk.player_save.inventory, game.npcs[i].item)
        /\ ~game.player.new_quest
        /\ ~game.pause_active

\* C8: while the player overlaps a speaking NPC, TalkingNPC.update moves
\* line_index forward by the number of interact key-downs of the frame but
\* never past len(lines) - 1; without overlap it leaves the index alone; over
\* whole frames the index of a plain dialogue NPC never decreases or leaves
\* 0..len(lines)-1.
DialogueSaturation ==
    /\ [](\A i \in Speakers : \A e \in QuestInputs :
            \A n \in {TalkingNPC_update(game.npcs[i], game.player, e)} :
                n.line_index =
                    IF colliderect(game.npcs[i].rect, game.player.rect)
                    THEN Min(game.npcs[i].line_index + Count(e.events, "K_e"),
                             Len(game.npcs[i].lines) - 1)
                    ELSE game.npcs[i].line_index)
    /\ [][\A i \in NpcsOfKind("talking_npc") :
            /\ game'.npcs[i].line_index >= game.npcs[i].line_index
            /\ game'.npcs[i].line_index \in 0..(Len(game.npcs[i].lines) - 1)]_vars

\* a dialogue NPC shows its last line while the player keeps talking to it
LastLineReached ==
    \E i \in NpcsOfKind("talking_npc") :
        /\ game.npcs[i].interacting
        /\ game.npcs[i].talking
        /\ Len(game.npcs[i].lines) >= 3
        /\ game.npcs[i].line_index = Len(game.npcs[i].lines) - 1
        /\ game.npcs[i].text_surf = game.npcs[i].lines[Len(game.npcs[i].lines)]

\* C9 as stated: no item id is in both inventory and items_delivered.
InventoryDeliveredDisjoint ==
    \A k \in 1..Len(Inventory) : ~Contains(Delivered, Inventory[k])

\* --- jumping and collisions (SpecJump)

\* C5: between two landings at most one jump impulse is applied: the count
\* of impulses since 'jumping' was last cleared never exceeds one, and when
\* collision resolution leaves the player airborne, Player.update only adds
\* gravity to vel.y, whatever jump key-downs the frame carries.
NoDoubleJump ==
    /\ game.player.impulses <= 1
    /\ \A e \in JumpInputs :
         \A c \in {TileStage_collisions(game.tilemap, game.player, e)} :
           \A m \in {Player_update(c, e)} :
              /\ m.impulses <= 1
              /\ c.jumping =>
                    /\ m.vel.y = c.vel.y + gravity * e.dt
                    /\ m.impulses = c.impulses

\* the player is falling back after the one jump, above the tower
FallingAfterJump ==
    /\ game.player.jumping
    /\ game.player.impulses = 1
    /\ game.player.vel.y > gravity * MaxDt
    /\ game.player.rect.y < 192

\* C6 as stated: after collision resolution the player's rectangle overlaps
\* no solid tile.
NoPenetration ==
    \A t \in game.tilemap : ~colliderect(game.player.rect, TileRect(t))

\* --- camera (SpecCamera)

\* C7: from the initial scroll (0, -48), after any sequence of adjust_to
\* calls with any dt and target, scroll.y is at most 48.
CameraVerticalBound == game.camera.scroll.y <= ScrollYMax

\* the camera sits at the bound after a call, and a call from here would
\* pass the bound without the final min()
CameraClamped ==
    /\ game.camera.scroll.y = ScrollYMax
    /\ game.camera.scroll.x # Camera_init.x
    /\ \E dt \in CameraDts, target_pos \in CameraTargets :
          Camera_adjust_toNoClamp(game.camera.scroll, dt, target_pos).y > ScrollYMax

\* --- leaving the game pipeline (Spec)

\* C11: on the frame where the transition completes the player save is
\* written first, then the music is stopped, then next_state is published;
\* so whenever next_state is non-null the save holds the player's settings
\* and the music is stopped.
LeaveOrder ==
    /\ [](game.next_state # None =>
            /\ disk.save_writes >= 1
            /\ disk.player_save = game.player.settings
            /\ music.state = "stopped")
    /\ [][game'.next_state # game.next_state =>
            /\ Len(trace') >= 3
            /\ SubSeq(trace', Len(trace') - 2, Len(trace'))
                   = <<"save", "music.stop", "next_state">>
            /\ disk'.save_writes = disk.save_writes + 1
            /\ music.state # "stopped"]_vars

\* the pipeline has left after a death: saved, silent, restart published
LeftAfterSave ==
    /\ game.next_state = "GAME"
    /\ disk.save_writes = 1
    /\ music.state = "stopped"
    /\ trace # <<>>
    /\ trace[Len(trace)] = "next_state"

\* --- the end of the game (SpecBeach)
AtBeach(g) ==
    /\ g.player.rect.x \in {BeachX, BeachX + 1}
    /\ g.player.settings.seashells >= SeashellsNeeded

\* C12: the record {run_intro: false, game_complete: true} is written at
\* most once per pipeline instance, on the frame whose BeachStage first sees
\* int(player x) = 290*16 with seashells >= 5 and the latch down; it is never
\* written with fewer than 5 seashells, and the latch stays up afterwards.
CompletionWrittenOnce ==
    /\ [](/\ disk.data_writes <= 1
          /\ disk.data_writes = 1 <=> game.player_congratulated
          /\ disk.data.game_complete <=> game.player_congratulated
          /\ game.player_congratulated =>
                /\ game.player.settings.seashells >= SeashellsNeeded
                /\ game._next_state # None
                /\ ~disk.data.run_intro)
    /\ [][/\ disk'.data_writes # disk.data_writes =>
                /\ UnpausedFrame
                /\ ~game.player_congratulated
                /\ AtBeach(game')
                /\ disk'.data_writes = disk.data_writes + 1
          /\ (UnpausedFrame /\ AtBeach(game') /\ ~game.player_congratulated) =>
                disk'.data_writes = disk.data_writes + 1
          /\ game.player_congratulated => game'.player_congratulated]_vars

\* the record was written and the player stood at the end for further frames
CompletionWritten ==
    /\ disk.data_writes = 1
    /\ disk.data = [run_intro |-> FALSE, game_complete |-> TRUE]
    /\ AtBeach(game)
    /\ game._next_state = "CREDITS"
    /\ game.next_state = None
    /\ game.transition.alpha >= 3 * (FADE_SPEED \div 10)

\* --- the jump precondition (SpecJump)

\* C13 as stated: Player.move applies an impulse only when 'jumping' is
\* false and vel.y is exactly zero at the moment the key-down is evaluated,
\* that is after Player.move has added gravity * dt to vel.y.
JumpPreconditionAsClaimed ==
    \A e \in JumpInputs :
      \A c \in {TileStage_collisions(game.tilemap, game.player, e)} :
        \A m \in {Player_update(c, e)} :
           /\ m.impulses > c.impulses =>
                 ~c.jumping /\ c.vel.y + gravity * e.dt = 0
           /\ c.vel.y + gravity * e.dt # 0 => m.impulses = c.impulses

\* C13 amended: an impulse is applied only when 'jumping' is false, which
\* after collision resolution holds only with vel.y exactly zero; when the
\* key-down is evaluated vel.y is gravity * dt.  With non-zero vel.y after
\* collision resolution no impulse is applied.
JumpPrecondition ==
    \A e \in JumpInputs :
      \A c \in {TileStage_collisions(game.tilemap, game.player, e)} :
        \A m \in {Player_update(c, e)} :
           /\ m.impulses > c.impulses =>
                 /\ ~c.jumping
                 /\ c.vel.y = 0
                 /\ Contains(e.events, "K_SPACE")
                 /\ m.vel.y = -jump_height
           /\ c.vel.y # 0 =>
                 /\ m.impulses = c.impulses
                 /\ m.vel.y = c.vel.y + gravity * e.dt
           /\ (~c.jumping /\ Contains(e.events, "K_SPACE")) =>
                 m.impulses = c.impulses + 1

\* a frame has just applied the impulse from the floor
JumpApplied ==
    /\ game.player.vel.y = -jump_height
    /\ game.player.impulses = 1
    /\ game.player.jumping
    /\ game.player.state = "jump"
    /\ game.player.rect.y = 192

\* --- input, velocity and displacement within a frame (Spec)

\* C14 as stated: the player's velocity is derived from the frame's input
\* before collision resolution moves the rectangle, so the rectangle after
\* the frame is the one resolved with the velocity of this frame's input.
SameFrameMovementAsClaimed ==
    \A e \in PlayInputs : \A w \in {PlayerStage_update(Bundle, e)} :
        w.self.player.rect =
            TileStage_collisions(game.tilemap, Player_update(game.player, e), e).rect

\* C14 amended: PlayerStage resolves collisions first, with the velocity the
\* previous update left, and only then derives velocity and state from the
\* frame's input: the rectangle after a frame does not depend on the frame's
\* keys, and the new velocity moves the player one frame later.
LaggedMovement ==
    /\ [](\A e \in PlayInputs : \A w \in {PlayerStage_update(Bundle, e)} :
            /\ w.self.player.rect =
                   TileStage_collisions(game.tilemap, game.player, e).rect
            /\ w.self.player.vel.x =
                   IF e.keys.d /\ ~e.keys.a THEN speed
                   ELSE IF e.keys.a /\ ~e.keys.d THEN -speed ELSE 0)
    /\ [][UnpausedFrame =>
            \E e \in PlayInputs :
                game'.player.rect =
                    TileStage_collisions(game.tilemap, game.player, e).rect]_vars

\* the first frame with the right key held: velocity set, player not moved
VelocitySetNotMoved ==
    /\ game.player.vel.x = speed
    /\ game.player.rect.x = LevelPit.save.checkpoint_pos[1]
    /\ game.player.facing = "right"
    /\ trace # <<>>

\* --- one-shot latches (SpecReload)
QuestNpcs == NpcsOfKind("quest_giver_npc") \cup NpcsOfKind("quest_receiver_npc")

MoveInputs ==
    {EventInfo(1, keys, events, "none", "asc") :
        keys \in AllKeys, events \in {<<>>, <<"K_SPACE">>}}

\* state and vel.x as an earlier Player.move can have left them
EarlierMoves == {<<"idle", 0>>, <<"walk", speed>>, <<"walk", -speed>>, <<"jump", 0>>}

\* C16: after Player.move the state is JUMP iff 'jumping' is true, else WALK
\* iff exactly one of left/right is held, else IDLE; vel.x is +speed, -speed
\* or 0 for right only, left only and both or neither; facing changes only
\* when exactly one key is held; the state and vel.x the player had before
\* the call do not influence the result.
StateIsPure ==
    \A e \in MoveInputs :
      \A f \in {"left", "right"}, old \in EarlierMoves :
        \A p \in {[game.player EXCEPT !.facing = f]} :
          \A m \in {Player_move(p, e)} :
            /\ m.state = IF m.jumping THEN "jump"
                         ELSE IF e.keys.a # e.keys.d THEN "walk" ELSE "idle"
            /\ m.vel.x = IF e.keys.d /\ ~e.keys.a THEN speed
                         ELSE IF e.keys.a /\ ~e.keys.d THEN -speed ELSE 0
            /\ m.facing = IF e.keys.d /\ ~e.keys.a THEN "right"
                          ELSE IF e.keys.a /\ ~e.keys.d THEN "left" ELSE f
            /\ Player_move([p EXCEPT !.state = old[1], !.vel.x = old[2]], e) = m

\* airborne past the edge with the left key held: the state is JUMP, not WALK
JumpWhileWalking ==
    /\ game.player.jumping
    /\ game.player.state = "jump"
    /\ game.player.vel.x = -speed
    /\ game.player.facing = "left"
    /\ game.player.rect.y > LevelPit.save.checkpoint_pos[2]

\* --- the receiver's delivery (SpecQuest)
SeqItems(seq) == {seq[k] : k \in 1..Len(seq)}

\* the receiver's update delivered: second latch set, talking, quest ongoing
Delivers(n) == n.check_finished_2 /\ n.talking /\ n.quest_ongoing

\* what C17 states in both versions: a delivery appends the required items
\* to items_delivered and adds one seashell, any other update changes
\* nothing of the player; over a frame items_delivered and seashells change
\* only by one such delivery
DeliveryEffect(npc, r) ==
    IF Delivers(r.npc)
    THEN /\ r.player.settings.items_delivered =
                game.player.settings.items_delivered \o npc.items
         /\ r.player.settings.seashells = game.player.settings.seashells + 1
         /\ r.player.settings.checkpoint_pos = game.player.settings.checkpoint_pos
         /\ \A x \in SeqItems(Inventory) \ SeqItems(npc.items) :
               Count(r.player.settings.inventory, x) = Count(Inventory, x)
    ELSE r.player = game.player

DeliveryFrames ==
    [][\/ /\ game'.player.settings.items_delivered = Delivered
          /\ game'.player.settings.seashells = game.player.settings.seashells
       \/ \E i \in NpcsOfKind("quest_receiver_npc") :
            /\ Delivers(game'.npcs[i])
            /\ game'.player.settings.items_delivered = Delivered \o game.npcs[i].items
            /\ game'.player.settings.seashells
                   = game.player.settings.seashells + 1]_vars

BeforeVerticalPass(tilemap, entity, e) ==
    LET collidable_tiles ==
            get_neighboring_tiles(tilemap, NeighborRadius,
                                  pixel_to_tile(entity.rect), e.order)
        e2 == HorizontalPass([entity EXCEPT !.rect.x = @ + entity.vel.x * e.dt],
                             collidable_tiles)
    IN  [e2 EXCEPT !.rect.y = @ + e2.vel.y * e.dt]

\* TileStage.collisions reads only dt of the frame's input
CollisionInputs ==
    {EventInfo(dt, NoKeys, <<>>, "none", order) :
        dt \in 1..MaxDt, order \in {"asc", "desc"}}

\* C18: in the vertical pass a collision while vel.y > 0 snaps the bottom to
\* the tile's top, zeroes vel.y and clears 'jumping'; a collision while
\* vel.y < 0 snaps the top to the tile's bottom and zeroes vel.y, leaving
\* 'jumping' alone; without collision nothing changes.  After
\* TileStage.collisions vel.y > 0 implies 'jumping', and 'jumping' false
\* implies vel.y = 0.
VerticalResponse ==
    \A e \in CollisionInputs :
       /\ \A c \in {TileStage_collisions(game.tilemap, game.player, e)} :
             /\ c.vel.y > 0 => c.jumping
             /\ ~c.jumping => c.vel.y = 0
       /\ \A ent \in {BeforeVerticalPass(game.tilemap, game.player, e)} :
            \A t \in game.tilemap :
              \A r \in {VerticalPass(ent, <<TileRect(t)>>)} :
                 IF colliderect(ent.rect, TileRect(t)) /\ ent.vel.y > 0
                 THEN r = [ent EXCEPT !.rect.y = TileRect(t).y - ent.rect.h,
                                      !.vel.y = 0, !.jumping = FALSE,
                                      !.impulses = 0]
                 ELSE IF colliderect(ent.rect, TileRect(t)) /\ ent.vel.y < 0
                 THEN r = [ent EXCEPT !.rect.y = TileRect(t).y + TileRect(t).h,
                                      !.vel.y = 0]
                 ELSE r = ent

\* the jump ended under the ceiling: top at the tile's bottom, still
\* 'jumping', falling again
CeilingHit ==
    /\ game.player.rect.y = TileRect(<<0, 3>>).y + TILE
    /\ game.player.jumping
    /\ game.player.impulses = 1
    /\ game.player.vel.y > 0
    /\ game.player.vel.y <= gravity * MaxDt

\* --- the camera's horizontal step (SpecCamera)

\* C19: adjust_to changes scroll.x by floor(target.x - scroll.x - width//2)
\* whatever dt is; for whole-pixel target.x and scroll.x one call puts
\* scroll.x at target.x - width//2 and a second call with the same target
\* leaves it there.  (A whole pixel is an even number of half pixels.)
HorizontalStep ==
    \A target_pos \in CameraTargets : \A dt \in CameraDts :
      \A c \in {Camera_adjust_to(game.camera.scroll, dt, target_pos)} :
        LET d    == target_pos.x - game.camera.scroll.x - 2 * (WIDTH \div 2)
            step == c.x - game.camera.scroll.x
        IN  /\ step % 2 = 0
            /\ step <= d
            /\ d < step + 2
            /\ \A dt2 \in CameraDts :
                  Camera_adjust_to(game.camera.scroll, dt2, target_pos).x = c.x
            /\ (target_pos.x % 2 = 0 /\ game.camera.scroll.x % 2 = 0) =>
                  /\ c.x = target_pos.x - 2 * (WIDTH \div 2)
                  /\ \A dt2 \in CameraDts :
                        Camera_adjust_to(c, dt2, target_pos).x = c.x

\* the camera has centred on a whole-pixel target right of the start
CameraCentred ==
    /\ game.camera.scroll.x = 640 - 2 * (WIDTH \div 2)
    /\ game.camera.scroll.y # ScrollY0

\* --- pause (SpecQuest)

\* the inputs a frame may carry while the pause menu is open
PausedInputs ==
    {EventInfo(dt, keys, events, click, "asc") :
        dt \in 1..MaxDt, keys \in AllKeys,
        events \in {<<>>, <<"K_e">>, <<"K_SPACE">>, <<"K_e", "K_SPACE">>,
                    <<"K_ESCAPE">>, <<"K_ESCAPE", "K_e">>},
        click \in GameClicks}

\* what pause and button handling, audio switching and the fade write
PauseFields ==
    {"pause_active", "exit", "_next_state", "next_state", "ost", "transition"}

\* C20: a frame that starts with pause_active true leaves the player's rect,
\* velocity, jumping and alive flags, the player's settings, every NPC and
\* the camera scroll as they were, whatever keys, events, click and frame
\* time it carries; of the game's fields only those of pause and button
\* handling, audio switching and the fade change.
PauseFreezes ==
    (active = "game" /\ game.pause_active) =>
        \A e \in PausedInputs : \A w \in {GameState_update(Bundle, e)} :
            /\ w.self.player.rect = game.player.rect
            /\ w.self.player.vel = game.player.vel
            /\ w.self.player.jumping = game.player.jumping
            /\ w.self.player.alive = game.player.alive
            /\ w.self.player.settings = game.player.settings
            /\ w.self.npcs = game.npcs
            /\ w.self.camera.scroll = game.camera.scroll
            /\ \A f \in (DOMAIN game) \ PauseFields : w.self[f] = game[f]

\* a frame has run with the pause menu open: only the three outermost
\* stages stepped, with the player away from the origin and holding an item
PausedFrameRan ==
    /\ active = "game"
    /\ game.pause_active
    /\ Len(trace) > 0
    /\ StageTrace(trace) = <<"PauseStage", "OSTStage", "TransitionStage">>
    /\ Inventory # <<>>
    /\ game.player.rect.x # 0

\* --- transition liveness (SpecLive)

\* C21: a non-null _next_state never becomes null again; every further
\* update call, paused or not, raises the fade's alpha or publishes; so
\* with update called until next_state or exit is read, a requested
\* transition is eventually published.
TransitionLiveness ==
    /\ [][/\ game._next_state # None => game'._next_state # None
          /\ menu._next_state # None => menu'._next_state # None]_vars
    /\ []((active = "game" /\ game._next_state # None /\ game.next_state = None)
            => \A e \in PlayInputs : \A w \in {GameState_update(Bundle, e)} :
                  \/ w.self.next_state # None
                  \/ w.self.transition.alpha > game.transition.alpha)
    /\ (active = "game" /\ game._next_state # None)
          ~> (game.next_state # None \/ game.exit)
    /\ (active = "menu" /\ menu._next_state # None)
          ~> (menu.next_state # None \/ menu.exit)

\* a transition requested from the pause menu was published with the
\* pause menu still open
PublishedWhilePaused ==
    /\ active = "game"
    /\ game.pause_active
    /\ game.next_state = "MENU"
    /\ ~game.exit

\* --- the end of the game (SpecBeach)

\* C22 as stated: once BeachStage has requested CREDITS the request is
\* never replaced, neither by a death requesting GAME nor by the pause
\* menu's "main menu" requesting MENU, and what the instance publishes is
\* CREDITS.
CompletionIsFinal ==
    /\ [][game._next_state = "CREDITS" => game'._next_state = "CREDITS"]_vars
    /\ []((game.player_congratulated /\ game.next_state # None)
            => game.next_state = "CREDITS")

\* --- inventory (SpecQuest)

\* C23 as stated: from a duplicate-free save, whatever the frames' event
\* lists and NPCs, each item id occurs at most once in inventory.
InventoryNoDuplicates ==
    \A j, k \in 1..Len(Inventory) : j # k => Inventory[j] # Inventory[k]

\* any keys, a jump, a pause toggle and any frame time
GateInputs ==
    {EventInfo(dt, keys, events, "none", "asc") :
        dt \in 1..MaxDt, keys \in AllKeys,
        events \in {<<>>, <<"K_SPACE">>, <<"K_ESCAPE">>}}

\* the player is past the line without the seashells needed
PastGate(g) ==
    /\ g.player.rect.x > BeachX
    /\ g.player.settings.seashells < SeashellsNeeded

\* C24: with fewer than 5 seashells, once rect.x is greater than 290*16 no
\* frame increases rect.x again, whatever its input: a frame ends with
\* vel.x <= 0 there, BeachStage having zeroed a positive vel.x before the
\* next frame's collision pass applies it.
BeachGate ==
    /\ [](PastGate(game) =>
            /\ game.player.vel.x <= 0
            /\ \A e \in GateInputs : \A w \in {GameState_update(Bundle, e)} :
                  /\ w.self.player.rect.x <= game.player.rect.x
                  /\ PastGate(w.self) => w.self.player.vel.x <= 0)
    /\ [][PastGate(game) => game'.player.rect.x <= game.player.rect.x]_vars

\* the gate stopped a player who kept walking right, and said so
GateHeld ==
    /\ PastGate(game)
    /\ game.player.vel.x = 0
    /\ game.player.state = "walk"
    /\ Len(game.text_particles) = MaxNoSeashellParticles

\* C25 as stated: a player with at least 5 seashells who walks from
\* x < 290*16 to x > 290*16 has triggered the completion branch by the end
\* of the crossing, whatever the starting x.  (Every save of BeachSaves
\* starts left of the line.)
CrossingCompletes ==
    (/\ game.player.settings.seashells >= SeashellsNeeded
     /\ game.player.rect.x > BeachX)
        => game.player_congratulated

\* --- audio (Spec)

\* the frame that led to this state restarted the music
Restarted(t) == \E i \in 1..Len(t) : t[i] = "start_ost"

\* C26: after every update the quiet track is the selected one exactly when
\* pause_active is true, and a frame restarts the music exactly when it
\* ends with pause_active different from what it started with: once, and
\* on the track that matches.
AudioFollowsPause ==
    /\ []((game.ost = "ost_quiet") <=> game.pause_active)
    /\ [](game.ost \in {"ost", "ost_quiet"})
    /\ [][active = "game" =>
            /\ Restarted(trace') <=> (game'.pause_active # game.pause_active)
            /\ Restarted(trace') =>
                  /\ Len(SelectSeq(trace', LAMBDA x : x = "start_ost")) = 1
                  /\ game'.next_state = None => music'.track = game'.ost
            /\ ~Restarted(trace') =>
                  music'.track \in {music.track, None}]_vars

\* a frame ran with the pause menu open and left the quiet track playing
\* without restarting it
QuietTrackKept ==
    /\ active = "game"
    /\ game.pause_active
    /\ music = [track |-> "ost_quiet", state |-> "playing"]
    /\ trace # <<>>
    /\ ~Restarted(trace)

\* --- dialogue index (SpecQuest)

\* the calls of render_text_default(text_if_item) an NPC has made
Swaps(npc) ==
    IF npc.kind = "quest_receiver_npc" THEN npc.swaps + npc.swaps_2
    ELSE IF npc.kind = "quest_giver_npc" THEN npc.swaps
    ELSE 0

\* line_index is inside the line list and text_surf is the line it names
IndexConsistent(npc) ==
    /\ npc.line_index \in 0..(Len(npc.lines) - 1)
    /\ npc.text_surf = npc.lines[npc.line_index + 1]

\* C27: after every update of a talking, quest-giver or quest-receiver NPC
\* 0 <= line_index <= len(lines) - 1 and text_surf is lines[line_index]; an
\* update that swaps the script ends with line_index 0 on the new list
\* (the default line followed by text_if_item), also when key-downs of the
\* same update advanced the index first.
DialogueIndexConsistent ==
    \A i \in Speakers :
        /\ IndexConsistent(game.npcs[i])
        /\ \A e \in QuestInputs :
             \A r \in {NPC_update(game.npcs[i], game.player, e)} :
                /\ IndexConsistent(r.npc)
                /\ Swaps(r.npc) > Swaps(game.npcs[i]) =>
                      /\ r.npc.line_index = 0
                      /\ r.npc.text_surf = DefaultLine
                      /\ r.npc.lines = <<DefaultLine>> \o game.npcs[i].text_if_item

\* the receiver swapped its script and took the delivery on one update: the
\* key-down that made it talk advanced the index, and the swap put it back
SwappedAfterAdvance ==
    \E i \in NpcsOfKind("quest_receiver_npc") :
        /\ game.npcs[i].swaps_2 = 1
        /\ game.npcs[i].interacting
        /\ game.npcs[i].talking
        /\ game.npcs[i].line_index = 0
        /\ game.npcs[i].lines = <<DefaultLine>> \o game.npcs[i].text_if_item
        /\ Contains(Delivered, "ball")

=============================================================================
